---------------------------- MODULE Spec2Model ----------------------------
(***************************************************************************)
(* A model of ai_sandbox/cli.py: the argument resolution of main, the      *)
(* command builders, has_env_arg, the engine selection with its process-   *)
(* wide cache, and the build / run sequence of main.                       *)
(*                                                                         *)
(* Tokens and paths are TLA+ strings; argument vectors are sequences of    *)
(* strings.  Python's None is the string None below, which no input uses.  *)
(***************************************************************************)
EXTENDS Integers, Sequences, FiniteSets, TLC

VARIABLES
    pc,             \* where main stands: start, check, decide, build, run, done
    argv,           \* the command line, as the options given (None: not given)
    environ,        \* os.environ, restricted to the three token variables
    fs,             \* the regular files that exist (os.path.isfile)
    path_bins,      \* the engine binaries shutil.which finds on PATH
    bins_options,   \* the PATH contents a later invocation may meet
    oracle,         \* the outcomes a subprocess may have
    CONTAINER_CLI,  \* the module global _CONTAINER_CLI
    loc,            \* main's local variables
    procs,          \* the subprocess.run calls of this invocation, in order
    which_log,      \* the shutil.which lookups of this invocation, in order
    warnings,       \* logger.warning / logger.error records of this invocation
    rc,             \* main's return value (RUNNING until it returns)
    call,           \* a direct call of a pure function: its arguments
    ret             \* and whether it returned (done), with its result (value)

vars == <<pc, argv, environ, fs, path_bins, bins_options, oracle, CONTAINER_CLI,
          loc, procs, which_log, warnings, rc, call, ret>>

None == "<None>"

\* main has not returned
RUNNING == -1

(***************************************************************************)
(* Bounds of the model.                                                    *)
(***************************************************************************)
\* longest extra-args sequence given to has_env_arg directly
MaxArgs == 3
\* most --docker-arg options on main's command line
MaxDockerArgs == 2
\* longest extra-args sequence given to build_run_command directly
MaxRunArgs == 2
\* most trailing command tokens on main's command line
MaxCmd == 3
\* most calls of _redact_item on one token in one process
MaxCalls == 2

(***************************************************************************)
(* Program constants.                                                      *)
(***************************************************************************)
INFO_TIMEOUT == 10
INSPECT_TIMEOUT == 10
BUILD_TIMEOUT == 900
\* timeout=None of the container run
NO_TIMEOUT == 0

DEFAULT_AUTH_FILES == <<"~/.codex/device_auth.json", "~/.codex/auth.json">>

DEFAULT_IMAGE == "ai-sandbox-codex"

\* os.getcwd(), $HOME and the directory above the installed package
CWD == "/work"
HOME == "/home/u"
PROJECT_ROOT == "/opt/pkg"

(***************************************************************************)
(* Strings and lists.                                                      *)
(***************************************************************************)
\* s[n:]
Drop(s, n) == SubSeq(s, n + 1, Len(s))

\* s[:n]
Take(s, n) == SubSeq(s, 1, IF n < Len(s) THEN n ELSE Len(s))

\* s.startswith(p)
StartsWith(s, p) == Len(s) >= Len(p) /\ SubSeq(s, 1, Len(p)) = p

\* s.endswith(p)
EndsWith(s, p) == Len(s) >= Len(p) /\ SubSeq(s, Len(s) - Len(p) + 1, Len(s)) = p

\* if v: for an optional string
Truthy(v) == v \notin {None, ""}

UPPERCASE == "ABCDEFGHIJKLMNOPQRSTUVWXYZ"
LOWERCASE == "abcdefghijklmnopqrstuvwxyz"

RECURSIVE Lower(_)
\* s.lower(), on ASCII
Lower(s) ==
    IF s = "" THEN ""
    ELSE LET c == SubSeq(s, 1, 1)
             at == {i \in 1..Len(UPPERCASE) : SubSeq(UPPERCASE, i, i) = c}
             lc == IF at = {} THEN c
                   ELSE LET i == CHOOSE i \in at : TRUE IN SubSeq(LOWERCASE, i, i)
         IN lc \o Lower(Drop(s, 1))

(***************************************************************************)
(* Paths (posixpath).                                                      *)
(***************************************************************************)
\* os.path.isabs
isabs(p) == StartsWith(p, "/")

\* os.path.join(a, b)
join(a, b) ==
    IF StartsWith(b, "/") THEN b
    ELSE IF a = "" \/ EndsWith(a, "/") THEN a \o b
    ELSE a \o "/" \o b

\* os.path.expanduser, for "~" and "~/..." (a "~user" path is returned as it is,
\* as for a user the password database does not know)
expanduser(p) ==
    IF p = "~" THEN HOME
    ELSE IF StartsWith(p, "~/") THEN HOME \o Drop(p, 1)
    ELSE p

\* os.path.abspath, for "." and for paths already normalised
abspath(p) ==
    IF p = "." THEN CWD
    ELSE IF isabs(p) THEN p
    ELSE join(CWD, p)

\* os.path.isfile
isfile(files, p) == p \in files

(***************************************************************************)
(* _redact_item                                                            *)
(***************************************************************************)
REDACT_KEYS == {"GITHUB_TOKEN", "GH_TOKEN", "GITHUB_AI_PAT_TOKEN", "PASSWORD", "SECRET"}

\* the places where sub stands in s
Occurrences(s, sub) ==
    {i \in 1..(Len(s) - Len(sub) + 1) : SubSeq(s, i, i + Len(sub) - 1) = sub}

\* s.find(sub), 1-based: the first place where sub stands in s, 0 if none
Find(s, sub) ==
    LET at == Occurrences(s, sub) IN
    IF at = {} THEN 0 ELSE CHOOSE i \in at : \A j \in at : i <= j

RECURSIVE redact_from(_, _, _)
\* the for loop of _redact_item over the keys in the order the set yields them,
\* from the idx-th key
redact_from(item, keys, idx) ==
    IF idx > Len(keys) THEN item
    ELSE LET key == keys[idx]
             at == Find(item, key \o "=")
         IN IF StartsWith(item, key \o "=")
               \/ (Find(item, "=") > 0 /\ Take(item, Find(item, "=") - 1) = key)
            THEN key \o "=REDACTED"
            ELSE IF at > 0 THEN Take(item, at - 1) \o key \o "=REDACTED"
            ELSE redact_from(item, keys, idx + 1)

\* _redact_item, given the iteration order of REDACT_KEYS in this process
redact_item(item, keys) == redact_from(item, keys, 1)

\* the orders in which iterating a set may yield its elements: the order of a
\* set of strings follows their hashes, which are seeded per process
IterationOrders(S) ==
    {f \in [1..Cardinality(S) -> S] :
        \A i, j \in 1..Cardinality(S) : i # j => f[i] # f[j]}

(***************************************************************************)
(* has_env_arg                                                             *)
(***************************************************************************)
RECURSIVE has_env_from(_, _, _)
\* the while loop of has_env_arg from index idx (1-based)
has_env_from(extra_args, key, idx) ==
    LET key_prefix == key \o "=" IN
    IF idx > Len(extra_args) THEN FALSE
    ELSE LET item == extra_args[idx] IN
         IF item \in {"-e", "--env"}
         THEN IF idx + 1 <= Len(extra_args)
                 /\ StartsWith(extra_args[idx + 1], key_prefix)
              THEN TRUE
              ELSE has_env_from(extra_args, key, idx + 2)
         ELSE IF StartsWith(item, key_prefix) THEN TRUE
         ELSE IF StartsWith(item, "--env=")
                 /\ StartsWith(Drop(item, Len("--env=")), key_prefix)
              THEN TRUE
         ELSE IF StartsWith(item, "-e") /\ item # "-e"
                 /\ LET candidate == Drop(item, Len("-e"))
                        stripped == IF StartsWith(candidate, "=")
                                    THEN Drop(candidate, 1) ELSE candidate
                    IN StartsWith(stripped, key_prefix)
              THEN TRUE
         ELSE has_env_from(extra_args, key, idx + 1)

RECURSIVE has_env_noskip(_, _, _)
\* has_env_from with the value of an unmatched -e / --env scanned as a token of
\* its own (idx += 1 where the code has idx += 2)
has_env_noskip(extra_args, key, idx) ==
    LET key_prefix == key \o "=" IN
    IF idx > Len(extra_args) THEN FALSE
    ELSE LET item == extra_args[idx] IN
         IF item \in {"-e", "--env"}
         THEN IF idx + 1 <= Len(extra_args)
                 /\ StartsWith(extra_args[idx + 1], key_prefix)
              THEN TRUE
              ELSE has_env_noskip(extra_args, key, idx + 1)
         ELSE IF StartsWith(item, key_prefix) THEN TRUE
         ELSE IF StartsWith(item, "--env=")
                 /\ StartsWith(Drop(item, Len("--env=")), key_prefix)
              THEN TRUE
         ELSE IF StartsWith(item, "-e") /\ item # "-e"
                 /\ LET candidate == Drop(item, Len("-e"))
                        stripped == IF StartsWith(candidate, "=")
                                    THEN Drop(candidate, 1) ELSE candidate
                    IN StartsWith(stripped, key_prefix)
              THEN TRUE
         ELSE has_env_noskip(extra_args, key, idx + 1)

has_env_arg_noskip(extra_args, key) == has_env_noskip(extra_args, key, 1)

has_env_arg(extra_args, key) == has_env_from(extra_args, key, 1)

(***************************************************************************)
(* The command builders.                                                   *)
(***************************************************************************)
\* build_command with the engine written out as docker
build_command_docker(container_cli, image, dockerfile, context) ==
    <<"docker", "build", "-t", image, "-f", dockerfile, context>>

\* the vector build_image runs
build_command(container_cli, image, dockerfile, context) ==
    <<container_cli, "build", "-t", image, "-f", dockerfile, context>>

\* build_run_command with the extra arguments put after the image
build_run_command_args_last(container_cli, image, context, name, extra_args, container_cmd, auth_file, use_tty) ==
    <<container_cli, "run", "--rm", "--add-host",
      "host.docker.internal:host-gateway",
      "-v", context \o ":/workspace", "-w", "/workspace">>
    \o (IF Truthy(auth_file)
        THEN <<"-v", auth_file \o ":/root/.codex/auth.json:ro">> ELSE <<>>)
    \o (IF use_tty THEN <<"-it">> ELSE <<>>)
    \o (IF Truthy(name) THEN <<"--name", name>> ELSE <<>>)
    \o <<image>>
    \o extra_args
    \o container_cmd

\* build_run_command, given the engine _get_container_cli returned
build_run_command(container_cli, image, context, name, extra_args, container_cmd, auth_file, use_tty) ==
    <<container_cli, "run", "--rm", "--add-host",
      "host.docker.internal:host-gateway",
      "-v", context \o ":/workspace", "-w", "/workspace">>
    \o (IF Truthy(auth_file)
        THEN <<"-v", auth_file \o ":/root/.codex/auth.json:ro">> ELSE <<>>)
    \o (IF use_tty THEN <<"-it">> ELSE <<>>)
    \o (IF Truthy(name) THEN <<"--name", name>> ELSE <<>>)
    \o extra_args
    \o <<image>>
    \o container_cmd

(***************************************************************************)
(* Auth file resolution.                                                   *)
(***************************************************************************)
\* one round of the loop of resolve_auth_candidates
resolve_candidate(context, candidate) ==
    LET expanded == expanduser(candidate) IN
    IF isabs(expanded) THEN expanded ELSE join(context, candidate)

resolve_auth_candidates(context, candidates) ==
    [i \in 1..Len(candidates) |-> resolve_candidate(context, candidates[i])]

RECURSIVE first_file(_, _, _)
\* the for loop of resolve_auth_file from index idx
first_file(files, resolved, idx) ==
    IF idx > Len(resolved) THEN None
    ELSE IF isfile(files, resolved[idx]) THEN resolved[idx]
    ELSE first_file(files, resolved, idx + 1)

RECURSIVE last_file(_, _, _)
\* the loop run from the end of the list
last_file(files, resolved, idx) ==
    IF idx < 1 THEN None
    ELSE IF isfile(files, resolved[idx]) THEN resolved[idx]
    ELSE last_file(files, resolved, idx - 1)

\* resolve_auth_file returning the last existing candidate
resolve_auth_file_last(files, context, candidates) ==
    last_file(files, resolve_auth_candidates(context, candidates),
              Len(candidates))

resolve_auth_file(files, context, candidates) ==
    first_file(files, resolve_auth_candidates(context, candidates), 1)

(***************************************************************************)
(* run_subprocess and the engine selection.                                *)
(***************************************************************************)
\* What a subprocess.run call can do: exit 0, exit non-zero, exceed its timeout,
\* be interrupted by the user (KeyboardInterrupt), or fail to start (OSError).
ALL_OUTCOMES == {"ok", "fail", "timeout", "interrupt", "oserror"}

\* the outcomes open to a call with this timeout: none expires without a timeout
Outcomes(allowed, timeout) ==
    IF timeout = NO_TIMEOUT THEN allowed \ {"timeout"} ELSE allowed

\* run_subprocess returning the completed process whatever its return code
run_subprocess_unchecked(outcome, check) ==
    CASE outcome = "ok" -> [exc |-> None, returncode |-> 0]
      [] outcome = "fail" -> [exc |-> None, returncode |-> 1]
      [] outcome = "timeout" -> [exc |-> "TimeoutExpired", returncode |-> 1]
      [] outcome = "interrupt" -> [exc |-> "KeyboardInterrupt", returncode |-> 1]
      [] OTHER -> [exc |-> "OSError", returncode |-> 1]

\* run_subprocess: the exception raised (None: it returned) and the return code
run_subprocess(outcome, check) ==
    CASE outcome = "ok" -> [exc |-> None, returncode |-> 0]
      [] outcome = "fail" ->
            IF check THEN [exc |-> "CalledProcessError", returncode |-> 1]
            ELSE [exc |-> None, returncode |-> 1]
      [] outcome = "timeout" -> [exc |-> "TimeoutExpired", returncode |-> 1]
      [] outcome = "interrupt" -> [exc |-> "KeyboardInterrupt", returncode |-> 1]
      [] OTHER -> [exc |-> "OSError", returncode |-> 1]

\* the record of one subprocess.run call
Proc(cmd, check, timeout, capture, outcome) ==
    [cmd |-> cmd, check |-> check, timeout |-> timeout, capture |-> capture,
     outcome |-> outcome]

\* a logger.warning / logger.error / logger.exception record
LogRecord(kind, detail) == [kind |-> kind, detail |-> detail]

\* _check_docker_available falling back to podman when the docker found does
\* not answer
check_docker_available_fallback(cache, bins, outcome) ==
    IF cache # None
    THEN [cli |-> cache, exc |-> None, cache |-> cache,
          which |-> <<>>, procs |-> <<>>, log |-> <<>>]
    ELSE LET r == run_subprocess(outcome, TRUE)
             docker_ok == "docker" \in bins /\ r.exc = None
             container_cli == IF docker_ok THEN "docker"
                              ELSE IF "podman" \in bins THEN "podman"
                              ELSE None
             which == IF docker_ok THEN <<"docker">> ELSE <<"docker", "podman">>
             probes == (IF "docker" \in bins
                        THEN <<Proc(<<"docker", "info">>, TRUE, INFO_TIMEOUT,
                                    TRUE, outcome)>>
                        ELSE <<>>)
                       \o (IF container_cli = "podman"
                           THEN <<Proc(<<"podman", "info">>, TRUE, INFO_TIMEOUT,
                                       TRUE, "ok")>>
                           ELSE <<>>)
         IN IF container_cli = None
            THEN [cli |-> None, exc |-> "FileNotFoundError", cache |-> cache,
                  which |-> which, procs |-> probes,
                  log |-> <<LogRecord("no_engine", <<>>)>>]
            ELSE [cli |-> container_cli, exc |-> None, cache |-> container_cli,
                  which |-> which, procs |-> probes, log |-> <<>>]

\* _check_docker_available selecting and probing anew on every call
check_docker_available_uncached(cache, bins, outcome) ==
    LET container_cli == IF "docker" \in bins THEN "docker"
                         ELSE IF "podman" \in bins THEN "podman"
                         ELSE None
        which == IF "docker" \in bins THEN <<"docker">>
                 ELSE <<"docker", "podman">>
    IN IF container_cli = None
       THEN [cli |-> None, exc |-> "FileNotFoundError", cache |-> cache,
             which |-> which, procs |-> <<>>,
             log |-> <<LogRecord("no_engine", <<>>)>>]
       ELSE LET r == run_subprocess(outcome, TRUE)
                p == Proc(<<container_cli, "info">>, TRUE, INFO_TIMEOUT,
                          TRUE, outcome)
            IN IF r.exc # None
               THEN [cli |-> None, exc |-> r.exc, cache |-> cache,
                     which |-> which, procs |-> <<p>>,
                     log |-> IF r.exc = "KeyboardInterrupt" THEN <<>>
                             ELSE <<LogRecord("engine_unavailable",
                                              <<container_cli>>)>>]
               ELSE [cli |-> container_cli, exc |-> None,
                     cache |-> container_cli, which |-> which,
                     procs |-> <<p>>, log |-> <<>>]

\* _check_docker_available: the value returned (cli), the exception raised, the
\* new value of the cache, and the lookups, subprocess calls and log records made
check_docker_available(cache, bins, outcome) ==
    IF cache # None
    THEN [cli |-> cache, exc |-> None, cache |-> cache,
          which |-> <<>>, procs |-> <<>>, log |-> <<>>]
    ELSE LET container_cli == IF "docker" \in bins THEN "docker"
                              ELSE IF "podman" \in bins THEN "podman"
                              ELSE None
             which == IF "docker" \in bins THEN <<"docker">>
                      ELSE <<"docker", "podman">>
         IN IF container_cli = None
            THEN [cli |-> None, exc |-> "FileNotFoundError", cache |-> cache,
                  which |-> which, procs |-> <<>>,
                  log |-> <<LogRecord("no_engine", <<>>)>>]
            ELSE LET r == run_subprocess(outcome, TRUE)
                     p == Proc(<<container_cli, "info">>, TRUE, INFO_TIMEOUT,
                               TRUE, outcome)
                 IN IF r.exc # None
                    THEN [cli |-> None, exc |-> r.exc, cache |-> cache,
                          which |-> which, procs |-> <<p>>,
                          log |-> IF r.exc = "KeyboardInterrupt" THEN <<>>
                                  ELSE <<LogRecord("engine_unavailable",
                                                   <<container_cli>>)>>]
                    ELSE [cli |-> container_cli, exc |-> None,
                          cache |-> container_cli, which |-> which,
                          procs |-> <<p>>, log |-> <<>>]

\* _get_container_cli
get_container_cli(cache, bins, outcome) ==
    IF cache = None THEN check_docker_available(cache, bins, outcome)
    ELSE [cli |-> cache, exc |-> None, cache |-> cache,
          which |-> <<>>, procs |-> <<>>, log |-> <<>>]

\* image_exists taking any completed inspect for an existing image
image_exists_any_exit(cache, bins, image, info_outcome, outcome) ==
    LET g == get_container_cli(cache, bins, info_outcome)
        base == [value |-> FALSE, exc |-> g.exc, cache |-> g.cache,
                 which |-> g.which, procs |-> g.procs, log |-> g.log]
    IN
    IF g.exc # None THEN base
    ELSE LET r == run_subprocess(outcome, FALSE)
             p == Proc(<<g.cli, "image", "inspect", image>>, FALSE,
                       INSPECT_TIMEOUT, TRUE, outcome)
             done == [base EXCEPT !.procs = @ \o <<p>>]
         IN IF r.exc = None THEN [done EXCEPT !.value = TRUE]
            ELSE IF r.exc = "KeyboardInterrupt" THEN [done EXCEPT !.exc = r.exc]
            ELSE done

\* image_exists without the handler around the inspect
image_exists_unguarded(cache, bins, image, info_outcome, outcome) ==
    LET g == get_container_cli(cache, bins, info_outcome)
        base == [value |-> FALSE, exc |-> g.exc, cache |-> g.cache,
                 which |-> g.which, procs |-> g.procs, log |-> g.log]
    IN
    IF g.exc # None THEN base
    ELSE LET r == run_subprocess(outcome, FALSE)
             p == Proc(<<g.cli, "image", "inspect", image>>, FALSE,
                       INSPECT_TIMEOUT, TRUE, outcome)
             done == [base EXCEPT !.procs = @ \o <<p>>]
         IN IF r.exc = None THEN [done EXCEPT !.value = (r.returncode = 0)]
            ELSE [done EXCEPT !.exc = r.exc]

\* image_exists with a handler that takes every exception, the user's interrupt
\* included
image_exists_catch_all(cache, bins, image, info_outcome, outcome) ==
    LET g == get_container_cli(cache, bins, info_outcome)
        base == [value |-> FALSE, exc |-> g.exc, cache |-> g.cache,
                 which |-> g.which, procs |-> g.procs, log |-> g.log]
    IN
    IF g.exc # None THEN base
    ELSE LET r == run_subprocess(outcome, FALSE)
             p == Proc(<<g.cli, "image", "inspect", image>>, FALSE,
                       INSPECT_TIMEOUT, TRUE, outcome)
             done == [base EXCEPT !.procs = @ \o <<p>>]
         IN IF r.exc = None THEN [done EXCEPT !.value = (r.returncode = 0)]
            ELSE done

\* image_exists: the value returned (value), the exception that escapes it, and
\* what the call did
image_exists(cache, bins, image, info_outcome, outcome) ==
    LET g == get_container_cli(cache, bins, info_outcome)
        base == [value |-> FALSE, exc |-> g.exc, cache |-> g.cache,
                 which |-> g.which, procs |-> g.procs, log |-> g.log]
    IN
    IF g.exc # None THEN base
    ELSE LET r == run_subprocess(outcome, FALSE)
             p == Proc(<<g.cli, "image", "inspect", image>>, FALSE,
                       INSPECT_TIMEOUT, TRUE, outcome)
             done == [base EXCEPT !.procs = @ \o <<p>>]
         IN IF r.exc = None THEN [done EXCEPT !.value = (r.returncode = 0)]
            ELSE IF r.exc = "KeyboardInterrupt" THEN [done EXCEPT !.exc = r.exc]
            ELSE done

\* build_image not checking the return code of the build
build_image_unchecked(cache, bins, image, dockerfile, context, info_outcome, outcome) ==
    LET g == get_container_cli(cache, bins, info_outcome) IN
    IF g.exc # None THEN g
    ELSE LET r == run_subprocess(outcome, FALSE)
             p == Proc(build_command(g.cli, image, dockerfile, context), TRUE,
                       BUILD_TIMEOUT, TRUE, outcome)
         IN [g EXCEPT !.procs = @ \o <<p>>, !.exc = r.exc]

\* build_image
build_image(cache, bins, image, dockerfile, context, info_outcome, outcome) ==
    LET g == get_container_cli(cache, bins, info_outcome) IN
    IF g.exc # None THEN g
    ELSE LET r == run_subprocess(outcome, TRUE)
             p == Proc(build_command(g.cli, image, dockerfile, context), TRUE,
                       BUILD_TIMEOUT, TRUE, outcome)
         IN [g EXCEPT !.procs = @ \o <<p>>, !.exc = r.exc]

\* run_container
run_container(cache, bins, image, context, name, extra_args, container_cmd, auth_file, use_tty, info_outcome, outcome) ==
    LET g == get_container_cli(cache, bins, info_outcome) IN
    IF g.exc # None THEN g
    ELSE LET r == run_subprocess(outcome, TRUE)
             cmd == build_run_command(g.cli, image, context, name, extra_args,
                                      container_cmd, auth_file, use_tty)
             p == Proc(cmd, TRUE, NO_TIMEOUT, ~use_tty, outcome)
         IN [g EXCEPT !.procs = @ \o <<p>>, !.exc = r.exc,
                      !.log = IF r.exc = "CalledProcessError"
                              THEN @ \o <<LogRecord("run_failed", <<>>)>>
                              ELSE @]

(***************************************************************************)
(* main                                                                    *)
(***************************************************************************)
\* the namespace parse_args returns: the defaults of the options not given
parse_args(options) ==
    [options EXCEPT !.image = IF @ = None THEN DEFAULT_IMAGE ELSE @,
                    !.mount_dir = IF @ = None THEN CWD ELSE @,
                    !.agent = IF @ = None THEN "codex" ELSE @]

\* get_package_root
get_package_root(files) ==
    IF isfile(files, join(PROJECT_ROOT, "Dockerfile")) THEN PROJECT_ROOT ELSE None

\* main: the legacy --context handling
legacy_build_context(args) ==
    IF args.context # None /\ args.build_context = None THEN args.context
    ELSE args.build_context

legacy_mount_dir(args) ==
    IF args.context # None /\ args.mount_dir = CWD THEN args.context
    ELSE args.mount_dir

\* the command with every "--" token taken out, wherever it stands
resolve_container_cmd_filter(cmd, agent) ==
    LET cmd_args == SelectSeq(cmd, LAMBDA t : t # "--") IN
    IF cmd_args # <<>> THEN cmd_args
    ELSE IF agent = "copilot"
         THEN <<"copilot", "--add-dir", "/workspace", "--allow-all-tools">>
    ELSE <<"codex", "--full-auto">>

\* main: the command run in the container
resolve_container_cmd(cmd, agent) ==
    LET cmd_args == IF Take(cmd, 1) = <<"--">> THEN Drop(cmd, 1) ELSE cmd IN
    IF cmd_args # <<>> THEN cmd_args
    ELSE IF agent = "copilot"
         THEN <<"copilot", "--add-dir", "/workspace", "--allow-all-tools">>
    ELSE <<"codex", "--full-auto">>

\* main: the Dockerfile of a build context (the same in all three branches)
resolve_dockerfile(build_context, dockerfile) ==
    IF dockerfile # None
    THEN IF isabs(dockerfile) THEN dockerfile ELSE join(build_context, dockerfile)
    ELSE join(build_context, "Dockerfile")

\* the token propagation without the has_env_arg checks
inject_tokens_override(docker_arg, agent, env) ==
    LET gh_token == env["GH_TOKEN"]
        e1 == IF agent = "copilot" /\ Truthy(gh_token)
              THEN docker_arg \o <<"-e", "GH_TOKEN=" \o gh_token>>
              ELSE docker_arg
        github_token == env["GITHUB_TOKEN"]
        e2 == IF agent = "copilot" /\ Truthy(github_token)
              THEN e1 \o <<"-e", "GITHUB_TOKEN=" \o github_token>>
              ELSE e1
        pat_token == env["GITHUB_AI_PAT_TOKEN"]
    IN IF Truthy(pat_token) /\ agent # "copilot"
       THEN e2 \o <<"-e", "GITHUB_TOKEN=" \o pat_token>>
       ELSE e2

\* the token propagation with GITHUB_AI_PAT_TOKEN used for every agent
inject_tokens_pat_always(docker_arg, agent, env) ==
    LET gh_token == env["GH_TOKEN"]
        e1 == IF agent = "copilot" /\ Truthy(gh_token)
                 /\ ~has_env_arg(docker_arg, "GH_TOKEN")
              THEN docker_arg \o <<"-e", "GH_TOKEN=" \o gh_token>>
              ELSE docker_arg
        github_token == env["GITHUB_TOKEN"]
        e2 == IF agent = "copilot" /\ Truthy(github_token)
                 /\ ~has_env_arg(e1, "GITHUB_TOKEN")
              THEN e1 \o <<"-e", "GITHUB_TOKEN=" \o github_token>>
              ELSE e1
        pat_token == env["GITHUB_AI_PAT_TOKEN"]
    IN IF Truthy(pat_token) /\ ~has_env_arg(e2, "GITHUB_TOKEN")
       THEN e2 \o <<"-e", "GITHUB_TOKEN=" \o pat_token>>
       ELSE e2

\* main: the token propagation into extra_args
inject_tokens(docker_arg, agent, env) ==
    LET gh_token == env["GH_TOKEN"]
        e1 == IF agent = "copilot" /\ Truthy(gh_token)
                 /\ ~has_env_arg(docker_arg, "GH_TOKEN")
              THEN docker_arg \o <<"-e", "GH_TOKEN=" \o gh_token>>
              ELSE docker_arg
        github_token == env["GITHUB_TOKEN"]
        e2 == IF agent = "copilot" /\ Truthy(github_token)
                 /\ ~has_env_arg(e1, "GITHUB_TOKEN")
              THEN e1 \o <<"-e", "GITHUB_TOKEN=" \o github_token>>
              ELSE e1
        pat_token == env["GITHUB_AI_PAT_TOKEN"]
    IN IF Truthy(pat_token) /\ agent # "copilot"
          /\ ~has_env_arg(e2, "GITHUB_TOKEN")
       THEN e2 \o <<"-e", "GITHUB_TOKEN=" \o pat_token>>
       ELSE e2

\* main: the candidate list of the auth file
auth_candidates(args) ==
    IF Truthy(args.auth_file) THEN <<args.auth_file>> ELSE DEFAULT_AUTH_FILES

\* the test for "none" made on the value as it was typed
auth_disabled_exact(args) ==
    args.no_auth \/ (Truthy(args.auth_file) /\ args.auth_file = "none")

\* main: whether auth mounting is disabled
auth_disabled(args) ==
    args.no_auth \/ (Truthy(args.auth_file) /\ Lower(args.auth_file) = "none")

\* the Dockerfile check left out
dockerfile_missing_never(files, dockerfile) == FALSE

\* main: the Dockerfile check before a build
dockerfile_missing(files, dockerfile) == ~isfile(files, dockerfile)

\* main: the exit status of an exception that reaches its handlers
exit_status(exc) ==
    CASE exc = "KeyboardInterrupt" -> 130
      [] exc = "CalledProcessError" -> 2
      [] OTHER -> 1

\* main's locals before it has run
LocInit ==
    [container_cmd |-> <<>>, use_tty |-> FALSE, mount_dir |-> None,
     build_context |-> None, dockerfile |-> None, extra_args |-> <<>>,
     auth_file |-> None, needs_build |-> FALSE]

\* main, from parse_args to the auth file resolution
MainResolve ==
    /\ pc = "start"
    /\ LET args == parse_args(argv)
           container_cmd == resolve_container_cmd(args.cmd, args.agent)
           mount_dir == abspath(expanduser(legacy_mount_dir(args)))
           given_context == legacy_build_context(args)
           package_root == get_package_root(fs)
           build_context ==
               IF given_context # None THEN abspath(expanduser(given_context))
               ELSE IF Truthy(package_root) THEN package_root
               ELSE mount_dir
           dockerfile == resolve_dockerfile(build_context, args.dockerfile)
           extra_args == inject_tokens(args.docker_arg, args.agent, environ)
           candidates == auth_candidates(args)
           auth_file == IF auth_disabled(args) THEN None
                        ELSE resolve_auth_file(fs, mount_dir, candidates)
           w1 == IF args.context # None
                 THEN <<LogRecord("deprecated_context", <<>>)>> ELSE <<>>
           w2 == IF given_context = None /\ ~Truthy(package_root)
                 THEN <<LogRecord("no_package_root", <<>>)>> ELSE <<>>
           w3 == IF ~auth_disabled(args) /\ ~Truthy(auth_file)
                 THEN <<LogRecord("auth_not_found",
                                  resolve_auth_candidates(mount_dir, candidates))>>
                 ELSE <<>>
       IN /\ loc' = [container_cmd |-> container_cmd, use_tty |-> ~args.no_tty,
                     mount_dir |-> mount_dir, build_context |-> build_context,
                     dockerfile |-> dockerfile, extra_args |-> extra_args,
                     auth_file |-> auth_file, needs_build |-> FALSE]
          /\ warnings' = warnings \o w1 \o w2 \o w3
    /\ pc' = "check"
    /\ UNCHANGED <<argv, environ, fs, path_bins, bins_options, oracle,
                   CONTAINER_CLI, procs, which_log, rc, call, ret>>

\* main: the effect of a helper's call on the cache and the logs
Effects(r) ==
    /\ CONTAINER_CLI' = r.cache
    /\ procs' = procs \o r.procs
    /\ which_log' = which_log \o r.which
    /\ warnings' = warnings \o r.log

\* the liveness probe's outcomes, when a call would make it
InfoOutcomes == IF CONTAINER_CLI = None /\ path_bins \cap {"docker", "podman"} # {}
                THEN Outcomes(oracle, INFO_TIMEOUT) ELSE {"ok"}

\* main: _check_docker_available()
MainCheck ==
    /\ pc = "check"
    /\ \E o \in InfoOutcomes :
         LET r == check_docker_available(CONTAINER_CLI, path_bins, o) IN
         /\ Effects(r)
         /\ IF r.exc # None
            THEN pc' = "done" /\ rc' = exit_status(r.exc)
            ELSE pc' = "decide" /\ rc' = rc
    /\ UNCHANGED <<argv, environ, fs, path_bins, bins_options, oracle, loc,
                   call, ret>>

\* main: the build decision
MainDecide ==
    /\ pc = "decide"
    /\ LET args == parse_args(argv) IN
       IF args.force_build
       THEN /\ loc' = [loc EXCEPT !.needs_build = TRUE]
            /\ pc' = "build"
            /\ UNCHANGED <<CONTAINER_CLI, procs, which_log, warnings, rc>>
       ELSE IF args.no_build
       THEN /\ loc' = [loc EXCEPT !.needs_build = FALSE]
            /\ pc' = "build"
            /\ UNCHANGED <<CONTAINER_CLI, procs, which_log, warnings, rc>>
       ELSE \E i \in InfoOutcomes, o \in Outcomes(oracle, INSPECT_TIMEOUT) :
              LET r == image_exists(CONTAINER_CLI, path_bins, args.image, i, o) IN
              /\ Effects(r)
              /\ IF r.exc # None
                 THEN pc' = "done" /\ rc' = exit_status(r.exc) /\ loc' = loc
                 ELSE /\ pc' = "build"
                      /\ rc' = rc
                      /\ loc' = [loc EXCEPT !.needs_build = ~r.value]
    /\ UNCHANGED <<argv, environ, fs, path_bins, bins_options, oracle, call, ret>>

\* main: the Dockerfile check and build_image, when a build is needed
MainBuild ==
    /\ pc = "build"
    /\ LET args == parse_args(argv) IN
       IF ~loc.needs_build
       THEN /\ pc' = "run"
            /\ UNCHANGED <<CONTAINER_CLI, procs, which_log, warnings, rc>>
       ELSE IF dockerfile_missing(fs, loc.dockerfile)
       THEN /\ pc' = "done"
            /\ rc' = 1
            /\ warnings' = warnings
                           \o <<LogRecord("dockerfile_not_found", <<loc.dockerfile>>)>>
            /\ UNCHANGED <<CONTAINER_CLI, procs, which_log>>
       ELSE \E i \in InfoOutcomes, o \in Outcomes(oracle, BUILD_TIMEOUT) :
              LET r == build_image(CONTAINER_CLI, path_bins, args.image,
                                   loc.dockerfile, loc.build_context, i, o) IN
              /\ Effects(r)
              /\ IF r.exc # None
                 THEN pc' = "done" /\ rc' = exit_status(r.exc)
                 ELSE pc' = "run" /\ rc' = rc
    /\ UNCHANGED <<argv, environ, fs, path_bins, bins_options, oracle, loc,
                   call, ret>>

\* main: run_container and the return
MainRun ==
    /\ pc = "run"
    /\ LET args == parse_args(argv) IN
       \E i \in InfoOutcomes, o \in Outcomes(oracle, NO_TIMEOUT) :
         LET r == run_container(CONTAINER_CLI, path_bins, args.image,
                                loc.mount_dir, args.name, loc.extra_args,
                                loc.container_cmd, loc.auth_file, loc.use_tty,
                                i, o) IN
         /\ Effects(r)
         /\ pc' = "done"
         /\ rc' = IF r.exc # None THEN exit_status(r.exc) ELSE 0
    /\ UNCHANGED <<argv, environ, fs, path_bins, bins_options, oracle, loc,
                   call, ret>>

\* main is called again in the same process (as the tests do): the cache is
\* kept, PATH may have changed, and the records of the last call are dropped
Reinvoke ==
    /\ pc = "done"
    /\ pc' = "start"
    /\ path_bins' \in bins_options
    /\ loc' = LocInit
    /\ procs' = <<>>
    /\ which_log' = <<>>
    /\ warnings' = <<>>
    /\ rc' = RUNNING
    /\ UNCHANGED <<argv, environ, fs, bins_options, oracle, CONTAINER_CLI,
                   call, ret>>

Next == MainResolve \/ MainCheck \/ MainDecide \/ MainBuild \/ MainRun \/ Reinvoke

(***************************************************************************)
(* Initial states.                                                         *)
(***************************************************************************)
\* the sequences over S of length at most n
BoundedSeq(S, n) == UNION {[1..k -> S] : k \in 0..n}

\* a command line with no option given
ArgvDefault ==
    [image |-> None, name |-> None, dockerfile |-> None, build_context |-> None,
     mount_dir |-> None, no_build |-> FALSE, force_build |-> FALSE,
     docker_arg |-> <<>>, no_tty |-> FALSE, auth_file |-> None,
     no_auth |-> FALSE, agent |-> None, cmd |-> <<>>, context |-> None]

ENV_KEYS == {"GH_TOKEN", "GITHUB_TOKEN", "GITHUB_AI_PAT_TOKEN"}

\* an environment that sets none of the token variables
EnvironEmpty == [k \in ENV_KEYS |-> None]

ENGINES == {"docker", "podman"}

\* no direct call of a function
NoCall == [fn |-> "main"]
NoRet == [done |-> FALSE, value |-> FALSE]

\* the start of a process that runs main: the inputs come from the given sets
MainInit(argvs, environs, files, bins, outcomes) ==
    /\ pc = "start"
    /\ argv \in argvs
    /\ environ \in environs
    /\ fs \in files
    /\ bins_options = bins
    /\ path_bins \in bins
    /\ oracle = outcomes
    /\ CONTAINER_CLI = None
    /\ loc = LocInit
    /\ procs = <<>>
    /\ which_log = <<>>
    /\ warnings = <<>>
    /\ rc = RUNNING
    /\ call = NoCall
    /\ ret = NoRet

\* the start of a direct call of one function: main does not run
CallInit(calls) ==
    /\ pc = "idle"
    /\ argv = ArgvDefault
    /\ environ = EnvironEmpty
    /\ fs = {}
    /\ bins_options = {{}}
    /\ path_bins = {}
    /\ oracle = {}
    /\ CONTAINER_CLI = None
    /\ loc = LocInit
    /\ procs = <<>>
    /\ which_log = <<>>
    /\ warnings = <<>>
    /\ rc = RUNNING
    /\ call \in calls
    /\ ret = NoRet

CallUnchanged ==
    UNCHANGED <<pc, argv, environ, fs, path_bins, bins_options, oracle,
                CONTAINER_CLI, loc, procs, which_log, warnings, rc, call>>

(***************************************************************************)
(* Spec: main's control flow, over the build flags, the files, PATH and    *)
(* every subprocess outcome.                                               *)
(***************************************************************************)
FlowFiles == {join(PROJECT_ROOT, "Dockerfile"), join(CWD, "Dockerfile"),
              HOME \o "/.codex/auth.json"}

FlowArgvs ==
    {[ArgvDefault EXCEPT !.no_build = nb, !.force_build = fb, !.no_tty = nt] :
        nb \in BOOLEAN, fb \in BOOLEAN, nt \in BOOLEAN}

Init == MainInit(FlowArgvs, {EnvironEmpty}, SUBSET FlowFiles, SUBSET ENGINES,
                 ALL_OUTCOMES)

Spec == Init /\ [][Next]_vars

(***************************************************************************)
(* SpecEnv: has_env_arg called directly.                                   *)
(***************************************************************************)
EnvTokens ==
    {"-e", "--env", "GITHUB_TOKEN=foo", "--env=GITHUB_TOKEN=foo",
     "-eGITHUB_TOKEN=foo", "-e=GITHUB_TOKEN=foo", "OTHER=foo", "GH_TOKEN=x",
     "-e==GITHUB_TOKEN=foo", "GITHUB_TOKEN", "XGITHUB_TOKEN=foo", "--name"}

EnvCalls ==
    {[fn |-> "has_env_arg", extra_args |-> a, key |-> k] :
        a \in BoundedSeq(EnvTokens, MaxArgs), k \in {"GITHUB_TOKEN", "GH_TOKEN"}}

InitEnv == CallInit(EnvCalls)

HasEnvArgCall ==
    /\ call.fn = "has_env_arg"
    /\ ~ret.done
    /\ ret' = [done |-> TRUE, value |-> has_env_arg(call.extra_args, call.key)]
    /\ CallUnchanged

SpecEnv == InitEnv /\ [][HasEnvArgCall]_vars

(***************************************************************************)
(* SpecRun: build_run_command called directly, the engine already          *)
(* selected.                                                               *)
(***************************************************************************)
RunTokens == {"-e", "FOO=bar", "img", "--name", "-it"}

RunCommandCalls ==
    {[fn |-> "build_run_command", container_cli |-> e, image |-> "img",
      context |-> "/ctx", name |-> n, extra_args |-> a, container_cmd |-> c,
      auth_file |-> f, use_tty |-> t] :
        e \in ENGINES, n \in {None, "", "my-container"},
        a \in BoundedSeq(RunTokens, MaxRunArgs),
        c \in {<<>>, <<"/bin/bash">>, <<"codex", "--full-auto">>, <<"img", "-it">>},
        f \in {None, "/ctx/mock/device_auth.json"}, t \in BOOLEAN}

InitRun == CallInit(RunCommandCalls)

BuildRunCommandCall ==
    /\ call.fn = "build_run_command"
    /\ ~ret.done
    /\ ret' = [done |-> TRUE,
               value |-> build_run_command(call.container_cli, call.image,
                             call.context, call.name, call.extra_args,
                             call.container_cmd, call.auth_file, call.use_tty)]
    /\ CallUnchanged

SpecRun == InitRun /\ [][BuildRunCommandCall]_vars

(***************************************************************************)
(* SpecTok: main over the --docker-arg sequences, the agent and the token  *)
(* variables of the environment.                                           *)
(***************************************************************************)
TokTokens ==
    {"-e", "GITHUB_TOKEN=explicit", "GH_TOKEN=override-gh",
     "--env=GITHUB_TOKEN=explicit", "-eGH_TOKEN=override-gh", "OTHER=foo"}

TokArgvs ==
    {[ArgvDefault EXCEPT !.docker_arg = a, !.agent = g, !.no_auth = TRUE] :
        a \in BoundedSeq(TokTokens, MaxDockerArgs), g \in {None, "copilot"}}

TokEnvirons ==
    {[k \in ENV_KEYS |->
        CASE k = "GH_TOKEN" -> gh
          [] k = "GITHUB_TOKEN" -> github
          [] OTHER -> pat] :
        gh \in {None, "", "gh-token"}, github \in {None, "", "github-token"},
        pat \in {None, "", "token"}}

InitTok == MainInit(TokArgvs, TokEnvirons, {FlowFiles}, {{"docker"}},
                    {"ok", "fail"})

SpecTok == InitTok /\ [][Next]_vars

(***************************************************************************)
(* SpecAuth: main over the --auth-file values, --no-auth, the mount        *)
(* directory and the auth files that exist.                                *)
(***************************************************************************)
AuthFiles ==
    {HOME \o "/.codex/device_auth.json", HOME \o "/.codex/auth.json",
     "/ctx/rel/device_auth.json", CWD \o "/rel/device_auth.json",
     "/abs/auth.json"}

AuthArgvs ==
    {[ArgvDefault EXCEPT !.auth_file = f, !.no_auth = na, !.mount_dir = m] :
        f \in {None, "", "rel/device_auth.json", "/abs/auth.json",
               "~/.codex/auth.json", "NONE"},
        na \in BOOLEAN, m \in {None, "/ctx"}}

InitAuth ==
    MainInit(AuthArgvs, {EnvironEmpty},
             {files \cup {join(PROJECT_ROOT, "Dockerfile")} :
                 files \in SUBSET AuthFiles},
             {{"docker"}}, {"ok", "fail"})

SpecAuth == InitAuth /\ [][Next]_vars

(***************************************************************************)
(* SpecCmd: main over the trailing command tokens and the agent.           *)
(***************************************************************************)
CmdTokens == {"--", "/bin/bash", "-x"}

CmdArgvs ==
    {[ArgvDefault EXCEPT !.cmd = c, !.agent = g, !.no_auth = TRUE,
                         !.no_tty = TRUE] :
        c \in BoundedSeq(CmdTokens, MaxCmd), g \in {None, "codex", "copilot"}}

InitCmd == MainInit(CmdArgvs, {EnvironEmpty}, {FlowFiles}, {{"docker"}},
                    {"ok", "fail"})

SpecCmd == InitCmd /\ [][Next]_vars

(***************************************************************************)
(* SpecRedact: _redact_item called directly, once and again, in a process  *)
(* with some iteration order of REDACT_KEYS.                               *)
(***************************************************************************)
RedactTokens ==
    {"GITHUB_TOKEN=abc123", "--env=GITHUB_TOKEN=abc123", "FOO=bar", "-e",
     "GH_TOKEN=x", "MY_SECRET=s", "PASSWORD=", "SECRET", "GITHUB_AI_PAT_TOKEN=p",
     "--env=PASSWORD=hunter2,SECRET=abc", "--env=SECRET=abc,PASSWORD=hunter2",
     "SECRET=abc,PASSWORD=hunter2"}

RedactCalls ==
    {[fn |-> "redact_item", item |-> t, keys |-> k] :
        t \in RedactTokens, k \in IterationOrders(REDACT_KEYS)}

InitRedact == CallInit(RedactCalls)

\* one more call on the same token; the results of the calls before are kept
RedactItemCall ==
    /\ call.fn = "redact_item"
    /\ ret.done => ret.calls < MaxCalls
    /\ ret' = [done |-> TRUE,
               value |-> redact_item(call.item, call.keys),
               calls |-> IF ret.done THEN ret.calls + 1 ELSE 1,
               earlier |-> IF ret.done THEN ret.earlier \cup {ret.value} ELSE {}]
    /\ CallUnchanged

SpecRedact == InitRedact /\ [][RedactItemCall]_vars

(***************************************************************************)
(* SpecImg: image_exists called directly, in a process with or without a   *)
(* cached engine, over PATH and every subprocess outcome.                  *)
(***************************************************************************)
ImageCalls == {[fn |-> "image_exists", image |-> i] : i \in {DEFAULT_IMAGE, "img"}}

InitImg ==
    /\ pc = "idle"
    /\ argv = ArgvDefault
    /\ environ = EnvironEmpty
    /\ fs = {}
    /\ bins_options = SUBSET ENGINES
    /\ path_bins \in bins_options
    /\ oracle = ALL_OUTCOMES
    /\ CONTAINER_CLI \in {None} \cup ENGINES
    /\ loc = LocInit
    /\ procs = <<>>
    /\ which_log = <<>>
    /\ warnings = <<>>
    /\ rc = RUNNING
    /\ call \in ImageCalls
    /\ ret = NoRet

ImageExistsCall ==
    /\ call.fn = "image_exists"
    /\ ~ret.done
    /\ \E i \in InfoOutcomes, o \in Outcomes(oracle, INSPECT_TIMEOUT) :
         LET r == image_exists(CONTAINER_CLI, path_bins, call.image, i, o) IN
         /\ Effects(r)
         /\ ret' = [done |-> TRUE, value |-> r.value, exc |-> r.exc]
    /\ UNCHANGED <<pc, argv, environ, fs, path_bins, bins_options, oracle, loc,
                   rc, call>>

SpecImg == InitImg /\ [][ImageExistsCall]_vars

(***************************************************************************)
(* SpecCtx: main over --context, --build-context and --mount-dir, given    *)
(* or not, the current directory among the values.                         *)
(***************************************************************************)
CtxArgvs ==
    {[ArgvDefault EXCEPT !.context = c, !.build_context = b, !.mount_dir = m,
                         !.no_auth = TRUE, !.no_tty = TRUE] :
        c \in {None, "/legacy"}, b \in {None, "/bc", CWD},
        m \in {None, "/mnt", CWD, "."}}

InitCtx == MainInit(CtxArgvs, {EnvironEmpty}, {FlowFiles}, {{"docker"}},
                    {"ok", "fail"})

SpecCtx == InitCtx /\ [][Next]_vars

(***************************************************************************)
(* The claims.                                                             *)
(***************************************************************************)

\* C1: build_run_command returns exactly the nine core tokens [engine, run,
\* --rm, --add-host, host.docker.internal:host-gateway, -v, <mount>:/workspace,
\* -w, /workspace], then [-v, <auth>:/root/.codex/auth.json:ro] iff an auth file
\* was resolved, then -it iff a TTY is requested, then [--name, name] iff a name
\* is present (an absent or empty name adds nothing), then the extra arguments
\* in caller order, then the image, then the command tokens: every engine flag
\* stands before the image and the image before every command token.
C1_RunVectorOrder ==
    (ret.done /\ call.fn = "build_run_command") =>
        LET cmd == ret.value
            has_auth == call.auth_file # None
            has_name == call.name \notin {None, ""}
            n_auth == IF has_auth THEN 2 ELSE 0
            n_tty == IF call.use_tty THEN 1 ELSE 0
            n_name == IF has_name THEN 2 ELSE 0
            n_extra == Len(call.extra_args)
            at_image == 9 + n_auth + n_tty + n_name + n_extra + 1
        IN /\ Len(cmd) = at_image + Len(call.container_cmd)
           /\ SubSeq(cmd, 1, 9) =
                <<call.container_cli, "run", "--rm", "--add-host",
                  "host.docker.internal:host-gateway", "-v",
                  call.context \o ":/workspace", "-w", "/workspace">>
           /\ has_auth =>
                SubSeq(cmd, 10, 11) =
                    <<"-v", call.auth_file \o ":/root/.codex/auth.json:ro">>
           /\ call.use_tty => cmd[9 + n_auth + 1] = "-it"
           /\ has_name =>
                SubSeq(cmd, 9 + n_auth + n_tty + 1, 9 + n_auth + n_tty + 2) =
                    <<"--name", call.name>>
           /\ SubSeq(cmd, at_image - n_extra, at_image - 1) = call.extra_args
           /\ cmd[at_image] = call.image
           /\ SubSeq(cmd, at_image + 1, Len(cmd)) = call.container_cmd

\* C1 witness: a call with a name, an auth file, a TTY, extra arguments and a
\* command has returned.
C1_Witness ==
    /\ ret.done
    /\ call.fn = "build_run_command"
    /\ call.name = "my-container"
    /\ call.auth_file # None
    /\ call.use_tty
    /\ call.extra_args = <<"-e", "FOO=bar">>
    /\ call.container_cmd = <<"codex", "--full-auto">>

\* the key prefix KEY= and the forms that set KEY
IsEnvFlag(token) == token \in {"-e", "--env"}

SingleForm(token, key) ==
    \/ StartsWith(token, "--env=" \o key \o "=")
    \/ StartsWith(token, "-e" \o key \o "=")
    \/ StartsWith(token, "-e=" \o key \o "=")
    \/ StartsWith(token, key \o "=")

PairAt(a, i, key) ==
    IsEnvFlag(a[i]) /\ i < Len(a) /\ StartsWith(a[i + 1], key \o "=")

\* one of the recognized forms stands at some position
ContainsForm(a, key) ==
    \E i \in 1..Len(a) : PairAt(a, i, key) \/ SingleForm(a[i], key)

RECURSIVE IsFlagValue(_, _)
\* position i holds the value of the -e / --env before it: that token is a flag
\* and is not itself the value of a flag
IsFlagValue(a, i) == i > 1 /\ IsEnvFlag(a[i - 1]) /\ ~IsFlagValue(a, i - 1)

\* the positions where a recognized form sets KEY, the value of an unmatched
\* flag not counting as a token of its own
SettingPositions(a, key) ==
    {i \in 1..Len(a) :
        ~IsFlagValue(a, i) /\ (PairAt(a, i, key) \/ SingleForm(a[i], key))}

SetsKey(a, key) == SettingPositions(a, key) # {}

\* C2 (as stated): has_env_arg(args, KEY) is true exactly when the sequence
\* contains, at some position, one of the recognized forms setting KEY.
C2_AnyPosition ==
    (ret.done /\ call.fn = "has_env_arg") =>
        (ret.value <=> ContainsForm(call.extra_args, call.key))

\* C2 (amended): has_env_arg(args, KEY) is true exactly when, scanning left to
\* right with every -e / --env taking the token after it as its value, some
\* -e / --env is followed by a token starting with KEY=, or some token that is
\* not such a value is --env=KEY=..., -eKEY=..., -e=KEY=... or KEY=...; a form
\* that is only the value of an unmatched -e / --env is not detected.
C2_ScannedForm ==
    (ret.done /\ call.fn = "has_env_arg") =>
        (ret.value <=> SetsKey(call.extra_args, call.key))

\* C2 witness: a call has returned false on a sequence that holds a recognized
\* form only as the value of an unmatched flag.
C2_Witness ==
    /\ ret.done
    /\ call.fn = "has_env_arg"
    /\ ~ret.value
    /\ ContainsForm(call.extra_args, call.key)

\* main has resolved its arguments in this invocation
Resolved == pc \in {"check", "decide", "build", "run", "done"}

\* the --docker-arg sequence the user gave
UserArgs == argv.docker_arg

\* the tokens main appended to the user's sequence
Appended == Drop(loc.extra_args, Len(UserArgs))

TOKEN_KEYS == {"GITHUB_TOKEN", "GH_TOKEN"}

\* C3 (as stated): the final extra-args has the user's sequence as an unchanged
\* prefix, and if the user's arguments set a key (GITHUB_TOKEN or GH_TOKEN) in a
\* recognized form, no -e KEY=<env value> pair is appended for it, so the final
\* extra-args holds exactly one entry setting that key, the user's.
C3_ExactlyOneEntry ==
    Resolved =>
        /\ Take(loc.extra_args, Len(UserArgs)) = UserArgs
        /\ \A key \in TOKEN_KEYS :
             SetsKey(UserArgs, key) =>
                /\ \A i \in 1..Len(Appended) :
                     ~StartsWith(Appended[i], key \o "=")
                /\ Cardinality(SettingPositions(loc.extra_args, key)) = 1
                /\ SettingPositions(loc.extra_args, key) \subseteq 1..Len(UserArgs)

\* C3 (amended): the final extra-args has the user's sequence as an unchanged
\* prefix, and if the user's arguments set a key (GITHUB_TOKEN or GH_TOKEN) in a
\* form has_env_arg detects, no -e KEY=<env value> pair is appended for it, so
\* the entries of the final extra-args that set the key are exactly the user's
\* (one entry when the user set it once, more when the user set it more often).
C3_OnlyUserEntries ==
    Resolved =>
        /\ Take(loc.extra_args, Len(UserArgs)) = UserArgs
        /\ \A key \in TOKEN_KEYS :
             SetsKey(UserArgs, key) =>
                /\ \A i \in 1..Len(Appended) :
                     ~StartsWith(Appended[i], key \o "=")
                /\ SettingPositions(loc.extra_args, key)
                     = SettingPositions(UserArgs, key)

\* C3 witness: the user gave GITHUB_TOKEN=explicit, the environment sets
\* GITHUB_AI_PAT_TOKEN, the agent is codex, and main has resolved its arguments.
C3_Witness ==
    /\ Resolved
    /\ UserArgs = <<"GITHUB_TOKEN=explicit">>
    /\ environ["GITHUB_AI_PAT_TOKEN"] = "token"
    /\ parse_args(argv).agent = "codex"
    /\ loc.extra_args = UserArgs

\* the pair main is to append for a key, given whether the variable counts as
\* set and whether the user's arguments set the key already
Injected(key, value, is_set) ==
    IF is_set /\ ~SetsKey(UserArgs, key) THEN <<"-e", key \o "=" \o value>>
    ELSE <<>>

\* what main is to append: for copilot GH_TOKEN and GITHUB_TOKEN from the
\* variables of the same names, for any other agent GITHUB_TOKEN from
\* GITHUB_AI_PAT_TOKEN; nonempty tells whether only a non-empty value counts
ExpectedAppended(nonempty) ==
    LET IsSet(v) == IF nonempty THEN v \notin {None, ""} ELSE v # None IN
    IF parse_args(argv).agent = "copilot"
    THEN Injected("GH_TOKEN", environ["GH_TOKEN"], IsSet(environ["GH_TOKEN"]))
         \o Injected("GITHUB_TOKEN", environ["GITHUB_TOKEN"],
                     IsSet(environ["GITHUB_TOKEN"]))
    ELSE Injected("GITHUB_TOKEN", environ["GITHUB_AI_PAT_TOKEN"],
                  IsSet(environ["GITHUB_AI_PAT_TOKEN"]))

\* C4 (as stated): with agent copilot main appends -e GH_TOKEN=<value> and
\* -e GITHUB_TOKEN=<value> for each of the variables GH_TOKEN and GITHUB_TOKEN
\* that is set and not already set by the user's arguments, and nothing from
\* GITHUB_AI_PAT_TOKEN; with any other agent it appends -e GITHUB_TOKEN=<value
\* of GITHUB_AI_PAT_TOKEN> when that variable is set and GITHUB_TOKEN is not
\* already set by the user, and nothing from GH_TOKEN or GITHUB_TOKEN.
C4_InjectedWhenSet ==
    Resolved => Appended = ExpectedAppended(FALSE)

\* C4 (amended): the same, a variable counting as set only when its value is
\* not empty: a variable set to the empty string is treated as unset and
\* nothing is appended for it.
C4_InjectedWhenNonEmpty ==
    Resolved => Appended = ExpectedAppended(TRUE)

\* C4 witness: agent copilot, GH_TOKEN set to a value, GITHUB_TOKEN set to the
\* empty string, the user's arguments setting neither: GH_TOKEN alone is
\* appended.
C4_Witness ==
    /\ Resolved
    /\ parse_args(argv).agent = "copilot"
    /\ environ["GH_TOKEN"] = "gh-token"
    /\ environ["GITHUB_TOKEN"] = ""
    /\ environ["GITHUB_AI_PAT_TOKEN"] = "token"
    /\ UserArgs = <<"OTHER=foo">>
    /\ Appended = <<"-e", "GH_TOKEN=gh-token">>

\* the subprocess calls of this invocation, by kind
IsInspect(p) == Len(p.cmd) >= 3 /\ SubSeq(p.cmd, 2, 3) = <<"image", "inspect">>
IsBuild(p) == p.cmd[2] = "build"
IsRun(p) == p.cmd[2] = "run"

InspectProcs == {i \in 1..Len(procs) : IsInspect(procs[i])}
BuildProcs == {i \in 1..Len(procs) : IsBuild(procs[i])}
RunProcs == {i \in 1..Len(procs) : IsRun(procs[i])}

\* C5: whenever --no-build is set the engine build command is never invoked,
\* whatever the other flags (--force-build included) and the image's presence.
C5_NoBuildNeverBuilds ==
    argv.no_build => BuildProcs = {}

\* C6: with neither --no-build nor --force-build, main requires a build iff the
\* image-exists probe returns false (the inspect did not exit 0); with
\* --force-build (and not --no-build) a build is required whatever the image's
\* presence and the probe is not consulted.
C6_BuildDecision ==
    pc = "build" =>
        /\ (~argv.no_build /\ ~argv.force_build) =>
              /\ Cardinality(InspectProcs) = 1
              /\ \A i \in InspectProcs :
                   loc.needs_build <=> procs[i].outcome # "ok"
        /\ (argv.force_build /\ ~argv.no_build) =>
              /\ loc.needs_build
              /\ InspectProcs = {}

\* C6 witness: with neither flag the inspect exited non-zero and a build is
\* required.
C6_Witness ==
    /\ pc = "build"
    /\ ~argv.no_build
    /\ ~argv.force_build
    /\ loc.needs_build
    /\ \E i \in InspectProcs : procs[i].outcome = "fail"

\* C7: when a build is required and the resolved Dockerfile does not exist, main
\* ends with a non-zero status and invokes neither the build nor the run
\* command.
C7_MissingDockerfileAborts ==
    (loc.needs_build /\ loc.dockerfile \notin fs) =>
        /\ pc \in {"build", "done"}
        /\ BuildProcs = {}
        /\ RunProcs = {}
        /\ pc = "done" => rc \notin {0, RUNNING}

\* C7 witness: main has returned on a required build with no Dockerfile.
C7_Witness ==
    /\ pc = "done"
    /\ loc.needs_build
    /\ loc.dockerfile \notin fs
    /\ rc = 1

\* C8: docker is looked up first and podman only when docker is absent; when
\* neither is found main fails after both lookups and nothing is selected; when
\* docker is found and its info probe fails, the failure ends main, podman is
\* neither looked up nor probed nor selected.
C8_EngineSelection ==
    /\ which_log \in {<<>>, <<"docker">>, <<"docker", "podman">>}
    /\ which_log = <<"docker">> => "docker" \in path_bins
    /\ which_log = <<"docker", "podman">> => "docker" \notin path_bins
    /\ (which_log # <<>> /\ path_bins \cap ENGINES = {}) =>
          /\ which_log = <<"docker", "podman">>
          /\ pc = "done"
          /\ rc \notin {0, RUNNING}
          /\ procs = <<>>
          /\ CONTAINER_CLI = None
          /\ \E i \in 1..Len(warnings) : warnings[i].kind = "no_engine"
    /\ (which_log # <<>> /\ "docker" \in path_bins) =>
          /\ procs # <<>>
          /\ procs[1].cmd = <<"docker", "info">>
          /\ procs[1].outcome # "ok" =>
                /\ pc = "done"
                /\ rc \notin {0, RUNNING}
                /\ Len(procs) = 1
                /\ which_log = <<"docker">>
                /\ CONTAINER_CLI = None

\* C8 witness: docker and podman are both on PATH, docker's info probe exited
\* non-zero, and main has returned.
C8_Witness ==
    /\ pc = "done"
    /\ path_bins = {"docker", "podman"}
    /\ procs # <<>>
    /\ procs[1].cmd = <<"docker", "info">>
    /\ procs[1].outcome = "fail"

\* C9: when docker is absent from PATH, podman is present and its info probe
\* succeeds, the selected and cached engine is podman; and while podman is the
\* cached engine every build vector is exactly [podman, build, -t, image, -f,
\* dockerfile, context] and every run vector begins with podman.
C9_PodmanFallback ==
    /\ (which_log # <<>> /\ "docker" \notin path_bins /\ "podman" \in path_bins) =>
          /\ procs # <<>>
          /\ procs[1].cmd = <<"podman", "info">>
          /\ procs[1].outcome = "ok" => CONTAINER_CLI = "podman"
    /\ CONTAINER_CLI = "podman" =>
          /\ \A i \in BuildProcs :
               procs[i].cmd = <<"podman", "build", "-t", parse_args(argv).image,
                                "-f", loc.dockerfile, loc.build_context>>
          /\ \A i \in RunProcs : procs[i].cmd[1] = "podman"

\* C9 witness: podman was selected in an earlier invocation, docker is on PATH
\* by now, and this invocation has built and run with podman.
C9_Witness ==
    /\ pc = "done"
    /\ rc = 0
    /\ CONTAINER_CLI = "podman"
    /\ "docker" \in path_bins
    /\ BuildProcs # {}
    /\ RunProcs # {}

\* the candidates of this invocation, resolved, and those that exist
AuthResolved ==
    resolve_auth_candidates(loc.mount_dir, auth_candidates(parse_args(argv)))

AuthExisting == {i \in 1..Len(AuthResolved) : AuthResolved[i] \in fs}

AuthWarnings == {i \in 1..Len(warnings) : warnings[i].kind = "auth_not_found"}

\* an auth mount among the tokens of a vector
HasAuthMount(cmd) ==
    \E i \in 1..Len(cmd) : EndsWith(cmd[i], ":/root/.codex/auth.json:ro")

\* C10: auth resolution, when not disabled, gives the first candidate in list
\* order whose resolved path exists; if none exists the auth source is None,
\* exactly one auth warning lists all resolved candidates in order, and main goes
\* on to run the container with no auth mount: it returns 0 when no command
\* fails.
C10_AuthResolution ==
    (Resolved /\ ~auth_disabled(parse_args(argv))) =>
        /\ AuthExisting # {} =>
              /\ \E i \in AuthExisting :
                   /\ \A j \in AuthExisting : i <= j
                   /\ loc.auth_file = AuthResolved[i]
              /\ AuthWarnings = {}
        /\ AuthExisting = {} =>
              /\ loc.auth_file = None
              /\ Cardinality(AuthWarnings) = 1
              /\ \A i \in AuthWarnings : warnings[i].detail = AuthResolved
              /\ pc \in {"check", "decide", "build", "run"} => rc = RUNNING
              /\ \A i \in RunProcs : ~HasAuthMount(procs[i].cmd)
              /\ (pc = "done"
                  /\ \A i \in 1..Len(procs) :
                       procs[i].check => procs[i].outcome = "ok") =>
                    /\ rc = 0
                    /\ RunProcs # {}

\* C10 witness: neither default candidate exists, the warning was given and main
\* has run the container and returned 0.
C10_Witness ==
    /\ pc = "done"
    /\ rc = 0
    /\ ~auth_disabled(parse_args(argv))
    /\ Len(AuthResolved) = 2
    /\ AuthExisting = {}
    /\ AuthWarnings # {}
    /\ RunProcs # {}

\* C10 witness of the order: of the two default candidates only the second
\* exists and it is the one mounted.
C10_WitnessSecond ==
    /\ pc = "done"
    /\ rc = 0
    /\ Len(AuthResolved) = 2
    /\ AuthExisting = {2}
    /\ loc.auth_file = AuthResolved[2]

\* the options that switch auth mounting off, as the user gave them
NoAuthGiven ==
    argv.no_auth \/ (argv.auth_file # None /\ Lower(argv.auth_file) = "none")

\* C11: if --no-auth is set, or the --auth-file value equals "none" whatever its
\* case, the auth source passed to the run step is None and no auth warning is
\* logged, whichever files exist; --no-auth overrides an --auth-file <path>
\* given with it, also when that path exists.
C11_AuthDisabled ==
    (Resolved /\ NoAuthGiven) =>
        /\ loc.auth_file = None
        /\ AuthWarnings = {}
        /\ \A i \in RunProcs : ~HasAuthMount(procs[i].cmd)

\* C11 witness: --no-auth was given with an --auth-file path that exists, and
\* main has run the container with no auth mount and no warning.
C11_Witness ==
    /\ pc = "done"
    /\ rc = 0
    /\ argv.no_auth
    /\ argv.auth_file = "/abs/auth.json"
    /\ "/abs/auth.json" \in fs
    /\ loc.auth_file = None
    /\ AuthWarnings = {}
    /\ RunProcs # {}

\* C11 witness of the case-insensitive value: --auth-file NONE without
\* --no-auth, and main has run the container with no auth mount.
C11_WitnessNone ==
    /\ pc = "done"
    /\ rc = 0
    /\ ~argv.no_auth
    /\ argv.auth_file = "NONE"
    /\ loc.auth_file = None
    /\ AuthWarnings = {}
    /\ RunProcs # {}

\* the default command of an agent
AgentDefault(agent) ==
    IF agent = "copilot"
    THEN <<"copilot", "--add-dir", "/workspace", "--allow-all-tools">>
    ELSE <<"codex", "--full-auto">>

\* the user's tokens without one leading "--"
OneDashStripped(tokens) ==
    IF tokens # <<>> /\ tokens[1] = "--"
    THEN [i \in 1..(Len(tokens) - 1) |-> tokens[i + 1]]
    ELSE tokens

\* the tokens after the image in a run vector
AfterImage(cmd, image) ==
    LET at == {i \in 1..Len(cmd) : cmd[i] = image}
        first == CHOOSE i \in at : \A j \in at : i <= j
    IN SubSeq(cmd, first + 1, Len(cmd))

C12_WitnessDefault ==
    /\ pc = "done"
    /\ argv.cmd = <<"--">>
    /\ argv.agent = "copilot"
    /\ loc.container_cmd =
         <<"copilot", "--add-dir", "/workspace", "--allow-all-tools">>
    /\ RunProcs # {}

\* the places in a token where a denylisted KEY= stands, with the key
DenylistedAt(item) ==
    {<<key, at>> \in REDACT_KEYS \X (1..Len(item)) :
        at \in Occurrences(item, key \o "=")}

\* C13: for every token, _redact_item replaces the value of a denylisted key:
\* if the token begins with or contains KEY= for a key of the denylist, the
\* result is the text before the key name followed by KEY=REDACTED and holds
\* none of the text that followed a denylisted KEY= in the token (the text kept
\* ends before the first denylisted KEY=); the result is the same on every call
\* for the same token; a token with no denylisted KEY= is returned unchanged.
C13_RedactsValue ==
    (ret.done /\ call.fn = "redact_item") =>
        /\ DenylistedAt(call.item) = {} => ret.value = call.item
        /\ DenylistedAt(call.item) # {} =>
              \E ka \in DenylistedAt(call.item) :
                 /\ ret.value = Take(call.item, ka[2] - 1) \o ka[1] \o "=REDACTED"
                 /\ \A kb \in DenylistedAt(call.item) : ka[2] <= kb[2]
        /\ ret.earlier \subseteq {ret.value}

\* the build and run commands of this invocation that exited non-zero
FailedBuilds == {i \in BuildProcs : procs[i].outcome = "fail"}
FailedRuns == {i \in RunProcs : procs[i].outcome = "fail"}

\* C14: if the engine build command or the engine run command exits non-zero,
\* main returns exit status 2; main returns 0 only when the run command was
\* invoked and exited with status 0; and after a failed build the run command
\* is never invoked.
C14_CommandFailureStatus ==
    /\ (FailedBuilds # {} \/ FailedRuns # {}) => (pc = "done" /\ rc = 2)
    /\ rc = 0 => \E i \in RunProcs : procs[i].outcome = "ok"
    /\ FailedBuilds # {} => RunProcs = {}

\* C14 witness: the build command exited non-zero and main returned 2 without
\* a run command.
C14_Witness ==
    /\ pc = "done"
    /\ rc = 2
    /\ FailedBuilds # {}
    /\ RunProcs = {}

\* C14 witness of the run: the build succeeded, the run command exited non-zero
\* and main returned 2.
C14_WitnessRun ==
    /\ pc = "done"
    /\ rc = 2
    /\ BuildProcs # {}
    /\ FailedBuilds = {}
    /\ FailedRuns # {}

\* the liveness probes and builds of this invocation that exceeded their timeout
IsInfo(p) == Len(p.cmd) = 2 /\ p.cmd[2] = "info"

TimedOut ==
    {i \in 1..Len(procs) :
        (IsInfo(procs[i]) \/ IsBuild(procs[i])) /\ procs[i].outcome = "timeout"}

\* C15: when a bounded engine liveness probe or an image build exceeds its
\* timeout, the timeout is surfaced as an external command failure: main ends
\* with exit status 2, not with success and not with the generic failure
\* status.
C15_TimeoutIsCommandFailure ==
    TimedOut # {} => (pc = "done" /\ rc = 2)

\* the commands of this invocation the user interrupted
Interrupted == {i \in 1..Len(procs) : procs[i].outcome = "interrupt"}

\* C16: a user interrupt arriving at any step of main (engine liveness probe,
\* image-exists probe, build or container run) is caught at the top level and
\* main returns exit status 130, never 0, 1 or 2: the interrupted command is the
\* last one issued, and neither the image-exists probe's catch-all nor the
\* engine probe's error handler swallows or converts the interrupt.
C16_InterruptStatus ==
    Interrupted # {} =>
        /\ pc = "done"
        /\ rc = 130
        /\ Interrupted = {Len(procs)}
        /\ CONTAINER_CLI = None => IsInfo(procs[Len(procs)])

\* C16 witness: the image inspect was interrupted and main returned 130 with
\* neither a build nor a run command.
C16_Witness ==
    /\ pc = "done"
    /\ rc = 130
    /\ \E i \in InspectProcs : procs[i].outcome = "interrupt"
    /\ BuildProcs = {}
    /\ RunProcs = {}

\* C16 witnesses of the other steps: the liveness probe, the build and the run
\* were interrupted and main returned 130.
C16_WitnessInfo ==
    pc = "done" /\ rc = 130 /\ procs # <<>> /\ IsInfo(procs[1])
    /\ procs[1].outcome = "interrupt"

C16_WitnessBuild ==
    pc = "done" /\ rc = 130 /\ \E i \in BuildProcs : procs[i].outcome = "interrupt"

C16_WitnessRun ==
    pc = "done" /\ rc = 130 /\ \E i \in RunProcs : procs[i].outcome = "interrupt"

\* the call of image_exists has returned or raised
ImageChecked == ret.done /\ call.fn = "image_exists"

\* C17 (as stated): image_exists never propagates an error: for every image
\* name and every engine/cache state, a non-zero inspect result, an inspect
\* timeout, or any exception raised while performing the check (a failure to
\* obtain the engine binary included) yields false rather than an exception; it
\* returns true only when the inspect command exits 0.
C17_NeverPropagates ==
    ImageChecked =>
        /\ ret.exc = None
        /\ ret.value <=> \E i \in InspectProcs : procs[i].outcome = "ok"

\* C17 (amended): image_exists propagates no error of the inspect command: for
\* every image name and every engine/cache state in which the engine binary is
\* obtained, a non-zero inspect result, an inspect timeout or an error raised by
\* running the inspect yields false rather than an exception, and it returns
\* true only when the inspect command exits 0; a failure to obtain the engine
\* binary (nothing cached and no engine on PATH, or the liveness probe failing)
\* is raised before the inspect and propagates, as does a user interrupt.
C17_InspectErrorsYieldFalse ==
    ImageChecked =>
        /\ ret.value <=> \E i \in InspectProcs : procs[i].outcome = "ok"
        /\ \A i \in InspectProcs :
             procs[i].outcome \in {"ok", "fail", "timeout", "oserror"} =>
                ret.exc = None
        /\ ret.exc # None =>
              \/ /\ InspectProcs = {}
                 /\ CONTAINER_CLI = None
                 /\ \/ path_bins \cap ENGINES = {} /\ ret.exc = "FileNotFoundError"
                    \/ \E i \in 1..Len(procs) :
                         IsInfo(procs[i]) /\ procs[i].outcome # "ok"
              \/ /\ ret.exc = "KeyboardInterrupt"
                 /\ \E i \in InspectProcs : procs[i].outcome = "interrupt"

\* C17 witness: with nothing cached and no engine on PATH the call raised
\* FileNotFoundError, no inspect having been run.
C17_Witness ==
    /\ ImageChecked
    /\ path_bins = {}
    /\ CONTAINER_CLI = None
    /\ ret.exc = "FileNotFoundError"
    /\ InspectProcs = {}

\* C17 witness of the guarded part: the inspect exceeded its timeout and the
\* call returned false.
C17_WitnessTimeout ==
    /\ ImageChecked
    /\ ret.exc = None
    /\ ~ret.value
    /\ \E i \in InspectProcs : procs[i].outcome = "timeout"

\* the deprecation warnings of this invocation
DeprecationWarnings ==
    {i \in 1..Len(warnings) : warnings[i].kind = "deprecated_context"}

\* C18: the deprecated --context value is used as the build context if and only
\* if --build-context was not given, and as the mount directory if and only if
\* --mount-dir was not given; an explicitly supplied --build-context or
\* --mount-dir (whatever its value, the current directory included) is never
\* replaced by the --context value; the deprecation warning is emitted if and
\* only if --context was supplied.
C18_LegacyContext ==
    Resolved =>
        /\ argv.build_context # None =>
              loc.build_context = abspath(expanduser(argv.build_context))
        /\ (argv.build_context = None /\ argv.context # None) =>
              loc.build_context = abspath(expanduser(argv.context))
        /\ argv.mount_dir # None =>
              loc.mount_dir = abspath(expanduser(argv.mount_dir))
        /\ (argv.mount_dir = None /\ argv.context # None) =>
              loc.mount_dir = abspath(expanduser(argv.context))
        /\ (argv.mount_dir = None /\ argv.context = None) => loc.mount_dir = CWD
        /\ DeprecationWarnings # {} <=> argv.context # None

\* the commands a step adds to this invocation's record
AddedProcs == {i \in 1..Len(procs') : i > Len(procs)}

\* a step of the process, as the cache sees it
CacheStep ==
    /\ CONTAINER_CLI # None =>
          /\ CONTAINER_CLI' = CONTAINER_CLI
          /\ which_log' \in {which_log, <<>>}
          /\ \A i \in AddedProcs :
               ~IsInfo(procs'[i]) /\ procs'[i].cmd[1] = CONTAINER_CLI
    /\ (CONTAINER_CLI = None /\ CONTAINER_CLI' # None) =>
          /\ CONTAINER_CLI' \in path_bins
          /\ which_log' # which_log
          /\ \E i \in AddedProcs :
               /\ procs'[i].cmd = <<CONTAINER_CLI', "info">>
               /\ procs'[i].outcome = "ok"
    /\ (CONTAINER_CLI = None
        /\ \/ which_log' # which_log /\ path_bins \cap ENGINES = {}
           \/ \E i \in AddedProcs :
                IsInfo(procs'[i]) /\ procs'[i].outcome # "ok") =>
          CONTAINER_CLI' = None

\* C19: the process-wide cached engine selection is a single-assignment value:
\* it is unset or one of docker / podman; it is written only after a binary was
\* found and its liveness probe succeeded (a failed or missing engine leaves it
\* unset, so a later call probes again); once set it never changes, and every
\* later call returns the cached value with no search-path lookup and no
\* liveness probe.
C19_CacheSingleAssignment ==
    /\ [](CONTAINER_CLI \in {None} \cup ENGINES)
    /\ [][CacheStep]_vars

\* C19 witness: podman was cached by an earlier invocation; in this one docker
\* alone is on PATH, and main has run to its end on the cached podman with no
\* lookup and no probe.
C19_Witness ==
    /\ pc = "done"
    /\ CONTAINER_CLI = "podman"
    /\ path_bins = {"docker"}
    /\ which_log = <<>>
    /\ procs # <<>>
    /\ \A i \in 1..Len(procs) : procs[i].cmd[1] = "podman" /\ ~IsInfo(procs[i])

\* the liveness probes of this invocation
InfoProcs == {i \in 1..Len(procs) : IsInfo(procs[i])}

\* C20: in every execution of main the external steps occur in the order
\* engine-availability check, then (optional) image-exists probe, then
\* (optional) build, then container run: no inspect, build or run command is
\* issued unless the engine-availability check has succeeded; the run command
\* is issued at most once and, when a build was required, only after the build
\* command completed with exit status 0; the build command is issued at most
\* once.
C20_StepOrder ==
    /\ (InspectProcs \cup BuildProcs \cup RunProcs) # {} =>
          /\ CONTAINER_CLI # None
          /\ pc \in {"build", "run", "done"}
          /\ \A i \in InfoProcs : procs[i].outcome = "ok"
    /\ \A i \in InfoProcs : \A j \in InspectProcs \cup BuildProcs \cup RunProcs : i < j
    /\ \A i \in InspectProcs : \A j \in BuildProcs \cup RunProcs : i < j
    /\ \A i \in BuildProcs : \A j \in RunProcs : i < j
    /\ Cardinality(InfoProcs) <= 1
    /\ Cardinality(InspectProcs) <= 1
    /\ Cardinality(BuildProcs) <= 1
    /\ Cardinality(RunProcs) <= 1
    /\ RunProcs # {} =>
          /\ \A i \in BuildProcs : procs[i].outcome = "ok"
          /\ loc.needs_build => BuildProcs # {}
    /\ BuildProcs # {} => loc.needs_build

\* C20 witness: one invocation has probed the engine, found the image missing,
\* built it and run the container, in this order, and returned 0.
C20_Witness ==
    /\ pc = "done"
    /\ rc = 0
    /\ Len(procs) = 4
    /\ IsInfo(procs[1]) /\ procs[1].outcome = "ok"
    /\ IsInspect(procs[2]) /\ procs[2].outcome = "fail"
    /\ IsBuild(procs[3]) /\ procs[3].outcome = "ok"
    /\ IsRun(procs[4]) /\ procs[4].outcome = "ok"

=============================================================================
